---- MODULE Spec2Model ----
(***************************************************************************)
(* Voxcribe: the whisper worker (MyTranscriptionPipeline, transcribe,      *)
(* GenerationTracker) as a state machine.  One worker, whose message       *)
(* handler is async: every await is a point where another message, a       *)
(* progress callback or a callback of another run may be served.  The      *)
(* steps between two awaits are atomic (one task plus its microtasks).     *)
(*                                                                         *)
(* Times are kept in tenths of a second, so that Math.round is modelled    *)
(* as a real rounding.  events[r] is the sequence of messages posted to    *)
(* the host on behalf of request r, in posting order.                      *)
(***************************************************************************)
EXTENDS Integers, Sequences, FiniteSets, TLC

\* ------------------------------------------------------------------ bounds
\* A run of the model is one of four workloads, chosen at the start: many
\* requests whose runs deliver few chunks; few requests whose runs make
\* enough callbacks to pass the partial-update period, with the host that
\* receives their messages; few requests whose runs deliver chunks of every
\* kind; few requests whose runs make beam updates only, enough to pass the
\* period more than twice.
MaxRequests == 2
MaxShortCallbacks == 1
MaxLongRequests == 1
MaxBeamUpdates == 10
MaxManyBeamUpdates == 25
MaxChunks == 2
MaxLoadCallbacks == 1

\* --------------------------------------------------------- program values
\* `null` of MyTranscriptionPipeline.instance, `undefined` of a local
Null == 0
\* the value a JS function returns when it falls off its end
Undefined == -1
\* a raw chunk whose end timestamp the engine did not report (null)
NoEnd == -2
\* const stride_length_s = 5
stride_length_s == 5
\* callbackFunctionCounter % 10
PartialUpdatePeriod == 10
\* tenths of a second per second: the unit of the model's timestamps
Tenths == 10

Requests == 1..MaxRequests

VARIABLES
    workload,       \* the bounds of this run: requests sent, callbacks made
    instance,       \* MyTranscriptionPipeline.instance: Null or an engine id
    factoryCalls,   \* how many times pipeline(task, ...) was invoked
    loadCallbacks,  \* how many times load_model_callback was invoked
    pc,             \* per request: where its transcribe() call stands
    building,       \* per request: the engine its getInstance is constructing
    instanceAtStart,\* per request: instance as getInstance found it
    busyAtStart,    \* per request: an earlier request was in flight on arrival
    pipeline,       \* per request: the local `pipeline` of transcribe
    tracker,        \* per request: its GenerationTracker
    events,         \* per request: the messages posted for it, in order
    inbox,          \* the messages on their way to the host, oldest first
    host            \* the state of App: output, downloading, loading, finished

vars == <<workload, instance, factoryCalls, loadCallbacks, pc, building, instanceAtStart,
          busyAtStart, pipeline, tracker, events, inbox, host>>

\* ---------------------------------------------------------------- helpers
\* Math.round on a non-negative time in tenths: nearest integer second,
\* halves upwards
Round(t) == (t + (Tenths \div 2)) \div Tenths

RECURSIVE TrimLeft(_)
TrimLeft(s) == IF s # <<>> /\ Head(s) = " " THEN TrimLeft(Tail(s)) ELSE s

RECURSIVE TrimRight(_)
TrimRight(s) ==
    IF s # <<>> /\ s[Len(s)] = " " THEN TrimRight(SubSeq(s, 1, Len(s) - 1)) ELSE s

\* String.prototype.trim on a text kept as a sequence of characters
Trim(s) == TrimRight(TrimLeft(s))

\* ---------------------------------------------------------------- messages
sendLoadingMessage(status) == [type |-> "LOADING", status |-> status]

sendDownloadingMessage(file) == [type |-> "DOWNLOADING", file |-> file]

createResultMessage(results, isDone, completedUntilTimestamp) ==
    [type |-> "RESULT", results |-> results, isDone |-> isDone,
     completedUntilTimestamp |-> completedUntilTimestamp]

createPartialResultMessage(result) == [type |-> "RESULT_PARTIAL", result |-> result]

\* load_model_callback: only status 'progress' is forwarded
load_model_callback(data) ==
    IF data.status = "progress" THEN <<sendDownloadingMessage(data.file)>> ELSE <<>>

\* ---------------------------------------------------------- the tracker
NoTracker ==
    [pipeline |-> Null, stride_length_s |-> 0, chunks |-> <<>>,
     processed_chunks |-> <<>>, callbackFunctionCounter |-> 0]

\* new GenerationTracker(pipeline, stride_length_s): the fields, and whether
\* the constructor threw.  `pipeline?.processor...` yields undefined for an
\* undefined pipeline, but `pipeline.model` on the same line then throws a
\* TypeError.
GenerationTracker(p, stride) ==
    [threw |-> (p = Null),
     obj |-> [pipeline |-> p, stride_length_s |-> stride, chunks |-> <<>>,
              processed_chunks |-> <<>>, callbackFunctionCounter |-> 0]]

getLastChunkTimestamp(t) ==
    IF Len(t.processed_chunks) = 0 THEN 0 ELSE Undefined

\* Math.round(end): null rounds to 0
RoundEnd(end) == IF end = NoEnd THEN 0 ELSE Round(end)

\* processChunk as it would be if it numbered a segment by the length of the
\* tracker's processed list
processChunkNumbersByProcessed(t, chunk, index) ==
    [index |-> Len(t.processed_chunks),
     text |-> Trim(chunk.text),
     start |-> Round(chunk.timestamp[1]),
     end |-> IF RoundEnd(chunk.timestamp[2]) # 0
             THEN RoundEnd(chunk.timestamp[2])
             ELSE Round(chunk.timestamp[1] + 9 * t.stride_length_s)]

processChunk(t, chunk, index) ==
    [index |-> index,
     text |-> Trim(chunk.text),
     start |-> Round(chunk.timestamp[1]),
     end |-> IF RoundEnd(chunk.timestamp[2]) # 0
             THEN RoundEnd(chunk.timestamp[2])
             ELSE Round(chunk.timestamp[1] + 9 * t.stride_length_s)]

\* pipeline.tokenizer._decode_asr(this.chunks, ...)[1].chunks: the library's
\* merge of the accumulated raw chunks into timestamped chunks, here one per
\* raw chunk in order
DecodeAsr(chunks) ==
    [i \in 1..Len(chunks) |->
        [text |-> chunks[i].text, timestamp |-> chunks[i].timestamp]]

\* the map as it would be if it numbered the segments from 1
ProcessAllOneBased(t, decoded) ==
    [i \in 1..Len(decoded) |-> processChunk(t, decoded[i], i)]

\* the map of chunkCallback: index is the 0-based position
ProcessAll(t, decoded) ==
    [i \in 1..Len(decoded) |-> processChunk(t, decoded[i], i - 1)]

\* callbackFunction as it would be if it tested the counter before the
\* increment
callbackFunctionTestsFirst(t, beams) ==
    LET t1 == [t EXCEPT !.callbackFunctionCounter = @ + 1] IN
    IF t.callbackFunctionCounter % PartialUpdatePeriod # 0
    THEN [obj |-> t1, msgs |-> <<>>]
    ELSE [obj |-> t1,
          msgs |-> <<createPartialResultMessage(
                        [text |-> beams[1], start |-> getLastChunkTimestamp(t1),
                         end |-> Undefined])>>]

\* callbackFunction(beams): the tracker afterwards and the messages posted
callbackFunction(t, beams) ==
    LET t1 == [t EXCEPT !.callbackFunctionCounter = @ + 1] IN
    IF t1.callbackFunctionCounter % PartialUpdatePeriod # 0
    THEN [obj |-> t1, msgs |-> <<>>]
    ELSE [obj |-> t1,
          msgs |-> <<createPartialResultMessage(
                        [text |-> beams[1], start |-> getLastChunkTimestamp(t1),
                         end |-> Undefined])>>]

\* chunkCallback as it would be if it sent only the segment of the new chunk
chunkCallbackDelta(t, data) ==
    LET t1 == [t EXCEPT !.chunks = Append(@, data)]
        t2 == [t1 EXCEPT !.processed_chunks = ProcessAll(t1, DecodeAsr(t1.chunks))]
    IN [obj |-> t2,
        msgs |-> <<createResultMessage(
                      SubSeq(t2.processed_chunks, Len(t2.processed_chunks),
                             Len(t2.processed_chunks)),
                      FALSE, getLastChunkTimestamp(t2))>>]

\* chunkCallback as it would be if it kept only the delivered chunk
chunkCallbackKeepsLast(t, data) ==
    LET t1 == [t EXCEPT !.chunks = <<data>>]
        t2 == [t1 EXCEPT !.processed_chunks = ProcessAll(t1, DecodeAsr(t1.chunks))]
    IN [obj |-> t2,
        msgs |-> <<createResultMessage(t2.processed_chunks, FALSE,
                                       getLastChunkTimestamp(t2))>>]

\* chunkCallback(data): the tracker afterwards and the messages posted
chunkCallback(t, data) ==
    LET t1 == [t EXCEPT !.chunks = Append(@, data)]
        t2 == [t1 EXCEPT !.processed_chunks = ProcessAll(t1, DecodeAsr(t1.chunks))]
    IN [obj |-> t2,
        msgs |-> <<createResultMessage(t2.processed_chunks, FALSE,
                                       getLastChunkTimestamp(t2))>>]

sendFinalResult(t) == <<[type |-> "INFERENCE_DONE"]>>

\* ------------------------------------------------------------ the inputs
\* what the engine can hand to chunk_callback: an ordinary chunk,
OrdinaryChunkInputs ==
    { [text |-> <<" ", "h", "i">>, timestamp |-> <<0, 20>>] }

\* a chunk with no end yet,
PlainChunkInputs ==
    OrdinaryChunkInputs \cup
    { [text |-> <<"p", " ">>, timestamp |-> <<10, NoEnd>>] }

\* a chunk whose end precedes its start and a chunk whose end rounds to 0
RawChunkInputs ==
    PlainChunkInputs \cup
    { [text |-> <<"x">>, timestamp |-> <<30, 10>>],
      [text |-> <<"u">>, timestamp |-> <<2, 4>>] }

BeamInputs == { <<"b">> }

LoadStatusInputs ==
    { [status |-> "initiate", file |-> "m"], [status |-> "progress", file |-> "m"] }

\* ----------------------------------------------------------------- budget
RECURSIVE SumOver(_, _)
SumOver(f, S) ==
    IF S = {} THEN 0
    ELSE LET x == CHOOSE y \in S : TRUE IN f[x] + SumOver(f, S \ {x})

BeamUpdates == SumOver([r \in Requests |-> tracker[r].callbackFunctionCounter], Requests)

ChunksDelivered == SumOver([r \in Requests |-> Len(tracker[r].chunks)], Requests)

\* ------------------------------------------------------------------- host
\* useState(null) of output: no value, or the one value it holds
NoOutput == <<>>

\* App's state as its useState calls leave it
HostInit ==
    [output |-> NoOutput, downloading |-> FALSE, loading |-> FALSE,
     finished |-> FALSE]

\* App's render: the view chosen from output and loading; the last two
\* branches depend on the chosen file only
render(h) ==
    IF h.output # NoOutput THEN "Information"
    ELSE IF h.loading THEN "Transcribing"
    ELSE "FileDisplay"

\* onMessageReceived as it would be if it showed a partial result as output
onMessageReceivedShowsPartial(h, e) ==
    CASE e.type = "DOWNLOADING" -> [h EXCEPT !.downloading = TRUE]
      [] e.type = "LOADING" -> [h EXCEPT !.loading = TRUE]
      [] e.type = "RESULT" -> [h EXCEPT !.output = <<e.results>>]
      [] e.type = "RESULT_PARTIAL" -> [h EXCEPT !.output = <<<<e.result>>>>]
      [] e.type = "INFERENCE_DONE" -> [h EXCEPT !.finished = TRUE]
      [] OTHER -> h

\* App's onMessageReceived: the switch on e.data.type, which has no case for
\* RESULT_PARTIAL
onMessageReceived(h, e) ==
    CASE e.type = "DOWNLOADING" -> [h EXCEPT !.downloading = TRUE]
      [] e.type = "LOADING" -> [h EXCEPT !.loading = TRUE]
      [] e.type = "RESULT" -> [h EXCEPT !.output = <<e.results>>]
      [] e.type = "INFERENCE_DONE" -> [h EXCEPT !.finished = TRUE]
      [] OTHER -> h

\* ------------------------------------------------------------------- Init
Workloads ==
    { [requests |-> MaxRequests, beams |-> 0,
       chunks |-> MaxShortCallbacks, inputs |-> OrdinaryChunkInputs,
       host |-> FALSE],
      [requests |-> MaxLongRequests, beams |-> MaxBeamUpdates,
       chunks |-> MaxChunks, inputs |-> OrdinaryChunkInputs, host |-> TRUE],
      [requests |-> MaxLongRequests, beams |-> 0,
       chunks |-> MaxChunks, inputs |-> RawChunkInputs, host |-> FALSE],
      [requests |-> MaxLongRequests, beams |-> MaxManyBeamUpdates,
       chunks |-> 0, inputs |-> OrdinaryChunkInputs, host |-> FALSE] }

Init ==
    /\ workload \in Workloads
    /\ instance = Null
    /\ factoryCalls = 0
    /\ loadCallbacks = 0
    /\ pc = [r \in Requests |-> "idle"]
    /\ building = [r \in Requests |-> Null]
    /\ instanceAtStart = [r \in Requests |-> Null]
    /\ busyAtStart = [r \in Requests |-> FALSE]
    /\ pipeline = [r \in Requests |-> Null]
    /\ tracker = [r \in Requests |-> NoTracker]
    /\ events = [r \in Requests |-> <<>>]
    /\ inbox = <<>>
    /\ host = HostInit

\* ---------------------------------------------------------------- actions
\* self.postMessage for each of msgs, on behalf of request r; the messages
\* travel to the host in the workloads that follow the host
postMessage(r, msgs) ==
    /\ events' = [events EXCEPT ![r] = @ \o msgs]
    /\ inbox' = IF workload.host THEN inbox \o msgs ELSE inbox

\* The host's handler reads and writes nothing of the worker, so the order
\* in which the worker and the host take their steps does not change what
\* the host goes through: the worker's next step is taken once the host has
\* handled the messages posted so far.
HostIdle == inbox = <<>>

InFlight(r) == pc[r] \in {"constructing", "running"}

\* getInstance as it would be without the null test
getInstanceAlwaysBuilds(inst) == TRUE

\* getInstance: construction starts exactly when instance === null
getInstanceBuilds(inst) == inst = Null

\* transcribe as it would be if the run were not awaited: sendFinalResult is
\* called as soon as the run has started
transcribeResumeNoAwait(r, p, pre) ==
    LET g == GenerationTracker(p, stride_length_s) IN
    /\ pipeline' = [pipeline EXCEPT ![r] = p]
    /\ IF g.threw
       THEN /\ pc' = [pc EXCEPT ![r] = "threw"]
            /\ tracker' = tracker
            /\ postMessage(r, pre \o <<sendLoadingMessage("success")>>)
       ELSE /\ pc' = [pc EXCEPT ![r] = "running"]
            /\ tracker' = [tracker EXCEPT ![r] = g.obj]
            /\ postMessage(r, pre \o <<sendLoadingMessage("success")>>
                                  \o sendFinalResult(g.obj))

\* transcribe as it would be if the tracker were one object kept across
\* requests
transcribeResumeKeepsTracker(r, p, pre) ==
    LET g == GenerationTracker(p, stride_length_s)
        kept == IF r > 1 /\ tracker[r - 1].pipeline # Null
                THEN [tracker[r - 1] EXCEPT !.pipeline = p]
                ELSE g.obj
    IN
    /\ pipeline' = [pipeline EXCEPT ![r] = p]
    /\ postMessage(r, pre \o <<sendLoadingMessage("success")>>)
    /\ IF g.threw
       THEN /\ pc' = [pc EXCEPT ![r] = "threw"]
            /\ tracker' = tracker
       ELSE /\ pc' = [pc EXCEPT ![r] = "running"]
            /\ tracker' = [tracker EXCEPT ![r] = kept]

\* transcribe from the return (or throw) of getInstance to the next await:
\* LOADING 'success', the tracker's construction, the start of the run.
\* p is the local `pipeline`, pre the messages posted before.
transcribeResume(r, p, pre) ==
    LET g == GenerationTracker(p, stride_length_s) IN
    /\ pipeline' = [pipeline EXCEPT ![r] = p]
    /\ postMessage(r, pre \o <<sendLoadingMessage("success")>>)
    /\ IF g.threw
       THEN /\ pc' = [pc EXCEPT ![r] = "threw"]
            /\ tracker' = tracker
       ELSE /\ pc' = [pc EXCEPT ![r] = "running"]
            /\ tracker' = [tracker EXCEPT ![r] = g.obj]

\* the message handler on an INFERENCE_REQUEST: transcribe up to its first
\* await that yields.  Messages are delivered in the order they were sent.
Receive(r) ==
    /\ pc[r] = "idle"
    /\ HostIdle
    /\ r <= workload.requests
    /\ \A q \in Requests : q < r => pc[q] # "idle"
    /\ instanceAtStart' = [instanceAtStart EXCEPT ![r] = instance]
    /\ busyAtStart' = [busyAtStart EXCEPT ![r] = \E q \in Requests : InFlight(q)]
    /\ IF getInstanceBuilds(instance)
       THEN /\ factoryCalls' = factoryCalls + 1
            /\ building' = [building EXCEPT ![r] = factoryCalls + 1]
            /\ pc' = [pc EXCEPT ![r] = "constructing"]
            /\ postMessage(r, <<sendLoadingMessage("loading")>>)
            /\ UNCHANGED <<pipeline, tracker>>
       ELSE /\ transcribeResume(r, instance, <<sendLoadingMessage("loading")>>)
            /\ UNCHANGED <<factoryCalls, building>>
    /\ UNCHANGED <<workload, instance, loadCallbacks, host>>

\* the factory reports progress of the construction request r started
Progress(r) ==
    /\ pc[r] = "constructing"
    /\ HostIdle
    /\ loadCallbacks < MaxLoadCallbacks
    /\ \E data \in LoadStatusInputs :
          postMessage(r, load_model_callback(data))
    /\ loadCallbacks' = loadCallbacks + 1
    /\ UNCHANGED <<workload, instance, factoryCalls, pc, building, instanceAtStart,
                   busyAtStart, pipeline, tracker, host>>

\* the factory's promise resolves: getInstance assigns instance and returns it
ConstructOk(r) ==
    /\ pc[r] = "constructing"
    /\ HostIdle
    /\ instance' = building[r]
    /\ transcribeResume(r, building[r], <<>>)
    /\ UNCHANGED <<workload, factoryCalls, loadCallbacks, building, instanceAtStart,
                   busyAtStart, host>>

\* ConstructFail as it would be if getInstance stored the engine before the
\* construction had succeeded
ConstructFailStoresEngine(r) ==
    /\ pc[r] = "constructing"
    /\ HostIdle
    /\ instance' = building[r]
    /\ transcribeResume(r, Null, <<>>)
    /\ UNCHANGED <<workload, factoryCalls, loadCallbacks, building, instanceAtStart,
                   busyAtStart, host>>

\* the factory's promise rejects: getInstance throws before the assignment,
\* transcribe logs the error and goes on with `pipeline` undefined
ConstructFail(r) ==
    /\ pc[r] = "constructing"
    /\ HostIdle
    /\ transcribeResume(r, Null, <<>>)
    /\ UNCHANGED <<workload, instance, factoryCalls, loadCallbacks, building, instanceAtStart,
                   busyAtStart, host>>

\* the run calls callback_function
BeamUpdate(r) ==
    /\ pc[r] = "running"
    /\ HostIdle
    /\ BeamUpdates < workload.beams
    /\ \E beams \in BeamInputs :
          LET c == callbackFunction(tracker[r], <<beams>>) IN
          /\ tracker' = [tracker EXCEPT ![r] = c.obj]
          /\ postMessage(r, c.msgs)
    /\ UNCHANGED <<workload, instance, factoryCalls, loadCallbacks, pc, building,
                   instanceAtStart, busyAtStart, pipeline, host>>

\* the run calls chunk_callback
ChunkFinalized(r) ==
    /\ pc[r] = "running"
    /\ HostIdle
    /\ ChunksDelivered < workload.chunks
    /\ \E data \in workload.inputs :
          LET c == chunkCallback(tracker[r], data) IN
          /\ tracker' = [tracker EXCEPT ![r] = c.obj]
          /\ postMessage(r, c.msgs)
    /\ UNCHANGED <<workload, instance, factoryCalls, loadCallbacks, pc, building,
                   instanceAtStart, busyAtStart, pipeline, host>>

\* RunReturn as it would be if transcribe returned without sendFinalResult
RunReturnSilently(r) ==
    /\ pc[r] = "running"
    /\ HostIdle
    /\ pc' = [pc EXCEPT ![r] = "done"]
    /\ UNCHANGED <<workload, instance, factoryCalls, loadCallbacks, building,
                   instanceAtStart, busyAtStart, pipeline, tracker, events, inbox, host>>

\* the run's promise resolves: transcribe calls sendFinalResult and returns
RunReturn(r) ==
    /\ pc[r] = "running"
    /\ HostIdle
    /\ postMessage(r, sendFinalResult(tracker[r]))
    /\ pc' = [pc EXCEPT ![r] = "done"]
    /\ UNCHANGED <<workload, instance, factoryCalls, loadCallbacks, building, instanceAtStart,
                   busyAtStart, pipeline, tracker, host>>

\* the run's promise rejects: transcribe has no handler, the rejection leaves
\* the message handler uncaught
RunFail(r) ==
    /\ pc[r] = "running"
    /\ HostIdle
    /\ pc' = [pc EXCEPT ![r] = "threw"]
    /\ UNCHANGED <<workload, instance, factoryCalls, loadCallbacks, building, instanceAtStart,
                   busyAtStart, pipeline, tracker, events, inbox, host>>

\* the host's message event: onMessageReceived on the oldest message
HostReceive ==
    /\ inbox # <<>>
    /\ host' = onMessageReceived(host, Head(inbox))
    /\ inbox' = Tail(inbox)
    /\ UNCHANGED <<workload, instance, factoryCalls, loadCallbacks, pc, building,
                   instanceAtStart, busyAtStart, pipeline, tracker, events>>

Next ==
    \/ HostReceive
    \/ \E r \in Requests :
        \/ Receive(r)
        \/ Progress(r)
        \/ ConstructOk(r)
        \/ ConstructFail(r)
        \/ BeamUpdate(r)
        \/ ChunkFinalized(r)
        \/ RunReturn(r)
        \/ RunFail(r)

Spec == Init /\ [][Next]_vars

\* Every await of the worker settles: a construction and a run each
\* eventually return or fail.
FairSpec ==
    /\ Spec
    /\ \A r \in Requests :
          /\ WF_vars(ConstructOk(r) \/ ConstructFail(r))
          /\ WF_vars(RunReturn(r) \/ RunFail(r))

\* ------------------------------------------------- vocabulary of the claims
Count(r, types) ==
    Cardinality({i \in 1..Len(events[r]) : events[r][i].type \in types})

Has(r, type) == Count(r, {type}) > 0

IsResult(e) == e.type = "RESULT"

ResultEvents(r) == SelectSeq(events[r], IsResult)

\* the three phases of the protocol
Phase(e) ==
    IF e.type \in {"LOADING", "DOWNLOADING"} THEN 1
    ELSE IF e.type \in {"RESULT", "RESULT_PARTIAL"} THEN 2
    ELSE 3

Ended(r) == pc[r] \in {"done", "threw"}

\* the requests whose own construction succeeded
Constructed == {r \in Requests : building[r] # Null /\ pipeline[r] = building[r]}

LastStart(segments) ==
    IF Len(segments) = 0 THEN 0 ELSE segments[Len(segments)].start

\* the segments of the latest RESULT among the first i events of r
RECURSIVE SegmentsBefore(_, _)
SegmentsBefore(r, i) ==
    IF i = 0 THEN <<>>
    ELSE IF events[r][i].type = "RESULT" THEN events[r][i].results
    ELSE SegmentsBefore(r, i - 1)

\* ------------------------------------------------------------------ claims

\* C1: a request that arrives while an earlier one is in flight is ignored:
\* no message is ever posted on its behalf.
C1_SecondRequestIgnored ==
    \A r \in Requests : busyAtStart[r] => events[r] = <<>>

\* C2: within one request, LOADING and DOWNLOADING messages precede RESULT and
\* RESULT_PARTIAL messages, which precede the terminal message, and there is
\* at most one terminal message.
C2_EventPhasesOrdered ==
    \A r \in Requests :
        /\ \A i, j \in 1..Len(events[r]) :
              i < j => Phase(events[r][i]) <= Phase(events[r][j])
        /\ Count(r, {"INFERENCE_DONE", "ERROR"}) <= 1

C2_Witness ==
    \E r \in Requests :
        /\ Has(r, "DOWNLOADING") /\ Has(r, "RESULT_PARTIAL")
        /\ Has(r, "RESULT") /\ Has(r, "INFERENCE_DONE")

\* C3 as stated: every request that has ended called sendFinalResult exactly
\* once.
C3_FinalResultForEveryRequest ==
    \A r \in Requests : Ended(r) => Count(r, {"INFERENCE_DONE"}) = 1

\* C3 as amended: sendFinalResult is called at most once, it has been called
\* exactly when the run of the request has returned, and INFERENCE_DONE is
\* then the last message of the request (no RESULT or RESULT_PARTIAL follows
\* it), whatever chunks the run delivered; a request whose construction or
\* run failed never calls it.
C3_FinalResultWhenRunReturns ==
    \A r \in Requests :
        /\ Count(r, {"INFERENCE_DONE"}) <= 1
        /\ (Count(r, {"INFERENCE_DONE"}) = 1) <=> (pc[r] = "done")
        /\ Has(r, "INFERENCE_DONE") =>
              events[r][Len(events[r])].type = "INFERENCE_DONE"

C3_Witness ==
    \E r \in Requests :
        /\ pc[r] = "done"
        /\ Len(ResultEvents(r)) = 2
        /\ \E k \in 1..Len(tracker[r].chunks) :
              /\ tracker[r].chunks[k].timestamp[2] # NoEnd
              /\ tracker[r].chunks[k].timestamp[2] < tracker[r].chunks[k].timestamp[1]

\* C4: a request whose construction or run failed has posted exactly one
\* ERROR message and no INFERENCE_DONE.
C4_FailureEmitsOneError ==
    \A r \in Requests :
        pc[r] = "threw" =>
            /\ Count(r, {"ERROR"}) = 1
            /\ Count(r, {"INFERENCE_DONE"}) = 0

\* C5: every request the worker has started eventually posts a terminal
\* message (INFERENCE_DONE or ERROR).
C5_EveryRequestTerminates ==
    \A r \in Requests :
        (pc[r] # "idle") ~> (Count(r, {"INFERENCE_DONE", "ERROR"}) > 0)

\* C6: the pipeline factory succeeds at most once in the worker's lifetime.
C6_EngineConstructedOnce == Cardinality(Constructed) <= 1

\* C7: a construction that fails leaves instance as it was and hands no engine
\* to its request; instance is never anything but null or an engine whose
\* construction succeeded; and a getInstance that finds instance null starts
\* a new construction with a new engine.
C7_Step ==
    \A r \in Requests :
        /\ (pc[r] = "constructing" /\ pc'[r] = "threw") =>
              /\ instance' = instance
              /\ pipeline'[r] = Null
        /\ (pc[r] = "idle" /\ pc'[r] # "idle" /\ instance = Null) =>
              /\ pc'[r] = "constructing"
              /\ factoryCalls' = factoryCalls + 1
              /\ building'[r] = factoryCalls'
              /\ \A q \in Requests \ {r} : building[q] # building'[r]
        /\ instance' # Null => \E q \in Requests :
              /\ building'[q] = instance'
              /\ pipeline'[q] = instance'

C7_FailedConstructionLeavesNull == [][C7_Step]_vars

C7_Witness ==
    \E r, q \in Requests :
        /\ r < q
        /\ pc[r] = "threw" /\ building[r] # Null /\ pipeline[r] = Null
        /\ instance = Null
        /\ ~busyAtStart[q]
        /\ pc[q] = "constructing" /\ building[q] > building[r]

\* C8: a request that starts when the engine exists gets that engine, starts
\* no construction and has no DOWNLOADING message.
C8_NoDownloadAfterConstruction ==
    \A r \in Requests :
        (pc[r] # "idle" /\ instanceAtStart[r] # Null) =>
            /\ building[r] = Null
            /\ pipeline[r] = instanceAtStart[r]
            /\ ~Has(r, "DOWNLOADING")

C8_Witness ==
    \E r, q \in Requests :
        /\ Has(q, "DOWNLOADING") /\ instance = building[q]
        /\ instanceAtStart[r] = building[q] /\ pc[r] = "done"

\* C9: a request has one RESULT message per chunk delivered; the k-th carries
\* the segments derived from all of the first k chunks and isDone = false; a
\* request whose run returned without a chunk has no RESULT and one
\* INFERENCE_DONE.
C9_OneFullResultPerChunk ==
    \A r \in Requests :
        LET res == ResultEvents(r)
            t == tracker[r]
        IN /\ Len(res) = Len(t.chunks)
           /\ \A k \in 1..Len(res) :
                 /\ res[k].isDone = FALSE
                 /\ res[k].results = ProcessAll(t, DecodeAsr(SubSeq(t.chunks, 1, k)))
                 /\ Len(res[k].results) = k
           /\ (pc[r] = "done" /\ Len(t.chunks) = 0) =>
                 /\ Len(res) = 0
                 /\ Count(r, {"INFERENCE_DONE"}) = 1

C9_Witness ==
    \E r \in Requests :
        /\ pc[r] = "done"
        /\ Len(tracker[r].chunks) = 2
        /\ Len(ResultEvents(r)) = 2
        /\ Len(ResultEvents(r)[2].results) = 2

\* C10: the timestamp of every RESULT is the start of the last segment it
\* carries, and the start of every RESULT_PARTIAL is the start of the last
\* segment of the RESULT before it (0 when there is no segment).
C10_TimestampIsLastStart ==
    \A r \in Requests : \A i \in 1..Len(events[r]) :
        LET e == events[r][i] IN
        /\ e.type = "RESULT" => e.completedUntilTimestamp = LastStart(e.results)
        /\ e.type = "RESULT_PARTIAL" =>
              e.result.start = LastStart(SegmentsBefore(r, i - 1))

\* C11: a tracker has posted one RESULT_PARTIAL per full period of beam
\* updates: floor(n / 10) after n updates, so 2 after 25 updates; a beam
\* update posts one exactly when it completes a period.
C11_BeamStep ==
    \A r \in Requests :
        LET n == tracker[r].callbackFunctionCounter
            m == tracker'[r].callbackFunctionCounter
        IN (pc[r] = "running" /\ m = n + 1) =>
              /\ Len(events'[r]) - Len(events[r]) = (IF m % 10 = 0 THEN 1 ELSE 0)
              /\ m % 10 = 0 => events'[r][Len(events'[r])].type = "RESULT_PARTIAL"
              /\ Count(r, {"RESULT_PARTIAL"}) = n \div 10
              /\ m = 25 => Count(r, {"RESULT_PARTIAL"}) = 2

C11_PartialResultThrottled == [][C11_BeamStep]_vars

C11_Witness ==
    \E r \in Requests :
        /\ tracker[r].callbackFunctionCounter = 25
        /\ Count(r, {"RESULT_PARTIAL"}) = 2
        /\ pc[r] = "done"

\* a raw chunk whose end is present and precedes its start
Malformed(c) == c.timestamp[2] # NoEnd /\ c.timestamp[2] < c.timestamp[1]

\* the number of chunks before the first malformed one
RECURSIVE ValidPrefix(_)
ValidPrefix(chunks) ==
    IF chunks = <<>> \/ Malformed(Head(chunks)) THEN 0
    ELSE 1 + ValidPrefix(Tail(chunks))

\* C12: once a malformed chunk was delivered the tracker holds the segments
\* of the chunks before it and no more, accumulates nothing after it, and the
\* request still ends with INFERENCE_DONE and without an error.
C12_MalformedChunkStopsAccumulation ==
    \A r \in Requests :
        LET t == tracker[r]
            n == ValidPrefix(t.chunks)
        IN n < Len(t.chunks) =>
              /\ Len(t.chunks) = n + 1
              /\ Len(t.processed_chunks) = n
              /\ Count(r, {"ERROR"}) = 0
              /\ pc[r] # "threw"

\* C13: the host's output is null until a RESULT is received; receiving a
\* RESULT makes it the results of that message; receiving any other message
\* leaves it as it was; no step of the worker changes it.
C13_HostStep ==
    /\ (\A r \in Requests : ~Has(r, "RESULT")) => host.output = NoOutput
    /\ IF inbox # <<>> /\ inbox' = Tail(inbox)
       THEN IF Head(inbox).type = "RESULT"
            THEN host'.output = <<Head(inbox).results>>
            ELSE host'.output = host.output
       ELSE host' = host

C13_OutputIsLastResult == [][C13_HostStep]_vars

C13_Witness ==
    /\ workload.host /\ inbox = <<>>
    /\ \E r \in Requests :
          /\ Has(r, "RESULT_PARTIAL") /\ Has(r, "INFERENCE_DONE")
          /\ Len(ResultEvents(r)) = 2
          /\ events[r][Len(events[r]) - 1].type = "RESULT_PARTIAL"
          /\ host.output = <<ResultEvents(r)[2].results>>
    /\ host.finished

\* the segments of every RESULT message of every request
ResultSegments ==
    UNION { { e.results[i] : i \in 1..Len(e.results) } :
            e \in UNION { { ResultEvents(r)[k] : k \in 1..Len(ResultEvents(r)) } :
                          r \in Requests } }

\* C14: the segments carried by every RESULT are numbered 0, 1, ..., N-1 in
\* order.
C14_IndicesAreZeroBasedPositions ==
    \A r \in Requests :
        \A k \in 1..Len(ResultEvents(r)) :
            LET results == ResultEvents(r)[k].results IN
            \A i \in 1..Len(results) : results[i].index = i - 1

C14_Witness ==
    \E r \in Requests :
        /\ Len(ResultEvents(r)) = 2
        /\ Len(ResultEvents(r)[2].results) = 2
        /\ ResultEvents(r)[2].results[1].index = 0
        /\ ResultEvents(r)[2].results[2].index = 1

\* C15: every segment of every RESULT message ends no earlier than it
\* starts.
C15_EndNotBeforeStart ==
    \A seg \in ResultSegments : seg.end >= seg.start

\* C16: the end of a processed segment is the rounded raw end whenever the
\* raw end is present, also when it rounds to 0, and the rounded
\* start + 0.9 * stride only when the raw end is absent.
C16_EndRule ==
    \A r \in Requests :
        LET t == tracker[r] IN
        \A i \in 1..Len(t.processed_chunks) :
            LET raw == t.chunks[i].timestamp IN
            t.processed_chunks[i].end =
                IF raw[2] # NoEnd THEN Round(raw[2])
                ELSE Round(raw[1] + 9 * stride_length_s)

\* C17: a tracker's list of raw chunks only grows at its end: a step either
\* leaves it as it was or, posting a RESULT, appends one delivered chunk
\* after the unchanged prefix; a step that posts a RESULT_PARTIAL or
\* INFERENCE_DONE leaves it as it was.
C17_ChunksStep ==
    \A r \in Requests :
        LET c == tracker[r].chunks
            d == tracker'[r].chunks
            new == SubSeq(events'[r], Len(events[r]) + 1, Len(events'[r]))
        IN \/ /\ d = c
              /\ \A k \in 1..Len(new) : new[k].type # "RESULT"
           \/ /\ pc[r] = "running"
              /\ Len(d) = Len(c) + 1
              /\ SubSeq(d, 1, Len(c)) = c
              /\ d[Len(d)] \in workload.inputs
              /\ Len(new) = 1 /\ new[1].type = "RESULT"

C17_ChunksAppendOnly == [][C17_ChunksStep]_vars

C17_Witness ==
    \E r \in Requests :
        /\ pc[r] = "done"
        /\ Len(tracker[r].chunks) = 2
        /\ tracker[r].chunks[1] # tracker[r].chunks[2]
        /\ Has(r, "INFERENCE_DONE")

\* C18: the segments derived again from a tracker's list of raw chunks are
\* the ones it holds, whatever its beam-update counter and its processed
\* list have become since.
C18_RederivationIdentical ==
    \A r \in Requests :
        LET t == tracker[r] IN
        /\ ProcessAll(t, DecodeAsr(t.chunks)) = t.processed_chunks
        /\ \A n \in 0..MaxManyBeamUpdates :
              ProcessAll([t EXCEPT !.callbackFunctionCounter = n,
                                   !.processed_chunks = <<>>],
                         DecodeAsr(t.chunks)) = t.processed_chunks

C18_Witness ==
    \E r \in Requests :
        /\ Len(tracker[r].processed_chunks) = 2
        /\ tracker[r].callbackFunctionCounter = MaxBeamUpdates
        /\ events[r][Len(events[r])].type = "RESULT_PARTIAL"

\* C19: a request starts its run with a fresh tracker (no chunk, counter 0);
\* every RESULT of the request carries the segments of a prefix of its own
\* tracker's chunks, and its RESULT_PARTIAL messages number the full periods
\* of its own tracker's counter.
C19_TrackerStep ==
    \A r \in Requests :
        /\ (pc[r] # "running" /\ pc'[r] = "running") =>
              /\ tracker'[r].chunks = <<>>
              /\ tracker'[r].processed_chunks = <<>>
              /\ tracker'[r].callbackFunctionCounter = 0
        /\ Len(ResultEvents(r)) = Len(tracker[r].chunks)
        /\ \A k \in 1..Len(ResultEvents(r)) :
              ResultEvents(r)[k].results =
                  ProcessAll(tracker[r], DecodeAsr(SubSeq(tracker[r].chunks, 1, k)))
        /\ Count(r, {"RESULT_PARTIAL"}) * PartialUpdatePeriod
              <= tracker[r].callbackFunctionCounter

C20_SuccessOnlyWithEngine ==
    \A r \in Requests :
        (\E k \in 1..Len(events[r]) :
            events[r][k].type = "LOADING" /\ events[r][k].status = "success")
        => pipeline[r] # Null

\* C21: whenever the host's finished is true its output is non-null, so the
\* results view is shown and not the loading view, also for a request that
\* finalized no chunk.
C21_FinishedShowsResults ==
    host.finished => (host.output # NoOutput /\ render(host) = "Information")

====
